---- MODULE Spec2Model ----
(***************************************************************************)
(* Model of the cobalt-connector session core:                             *)
(*   - the XState machine of src/src/machines/session.machine.ts           *)
(*     (states, guards, actions, invoked actors), and                      *)
(*   - the AppService of src/unnamed/part_008 that owns the session        *)
(*     registry, maps triggers to machine events, provides the actors      *)
(*     that call the n8n workflow backend, and publishes on the per        *)
(*     session stream from the actor subscription.                         *)
(*                                                                         *)
(* Strings are TLA+ strings; includes/replace/trim/startsWith are computed *)
(* character by character.  Message ids (uuid), timestamps and the opaque  *)
(* richContent payload are not modelled.  A stream entry carries a `via`   *)
(* field naming the code site that emitted it.                             *)
(***************************************************************************)
EXTENDS Integers, Sequences, FiniteSets, TLC

VARIABLES
    sessions,           \* key set of AppService.sessions (the Map)
    state,              \* per session id: the actor's state value
    ctx,                \* per session id: the actor's context
    lastMessageCount,   \* per session id: SessionInfo.lastMessageCount
    stream,             \* per session id: everything put on SessionInfo.stream
    actorsCreated,      \* per session id: number of createActor calls
    actorCalls,         \* promises of invoked actors that have not settled
    triggerCalls        \* handleTrigger calls awaiting callN8n

vars == <<sessions, state, ctx, lastMessageCount, stream, actorsCreated,
          actorCalls, triggerCalls>>

----------------------------------------------------------------------------
(* Bounds and input sets *)

MaxStream == 4

MaxPending == 1

Sessions == {"s1", "s2"}

undefined == "<undefined>"

Falsy(x) == x = undefined \/ x = ""

Or(a, b) == IF Falsy(a) THEN b ELSE a

----------------------------------------------------------------------------
(* String functions of the JavaScript runtime *)

startsWith(s, p) == Len(s) >= Len(p) /\ SubSeq(s, 1, Len(p)) = p

endsWith(s, p) == Len(s) >= Len(p) /\ SubSeq(s, Len(s) - Len(p) + 1, Len(s)) = p

Occurrences(s, p) ==
    {i \in 1..(Len(s) - Len(p) + 1) : SubSeq(s, i, i + Len(p) - 1) = p}

includes(s, p) == Occurrences(s, p) # {}

Min(S) == CHOOSE x \in S : \A y \in S : x <= y

Max(S) == CHOOSE x \in S : \A y \in S : x >= y

\* String.prototype.replace with a string pattern: the first occurrence only
replace(s, p, r) ==
    IF Occurrences(s, p) = {} THEN s
    ELSE LET i == Min(Occurrences(s, p))
         IN  SubSeq(s, 1, i - 1) \o r \o SubSeq(s, i + Len(p), Len(s))

trim(s) ==
    LET keep == {i \in 1..Len(s) : SubSeq(s, i, i) # " "}
    IN  IF keep = {} THEN "" ELSE SubSeq(s, Min(keep), Max(keep))

escalationTag == "##ESCALATE##"

----------------------------------------------------------------------------
(* session.machine.ts: events, context, actions, guards *)

NoMeta == {}

NoOutput == [content |-> undefined, metadata |-> NoMeta]

\* An event object; fields an event does not carry read as undefined.
Ev(type) ==
    [type |-> type, content |-> undefined, message |-> undefined,
     metadata |-> NoMeta, email |-> undefined, agentId |-> undefined,
     data |-> undefined, output |-> NoOutput]

invokeId(st) == "0.CobaltChatbot." \o st

DoneEvent(st, output) ==
    [Ev("xstate.done.actor." \o invokeId(st)) EXCEPT !.output = output]

ErrorEvent(st) == Ev("xstate.error.actor." \o invokeId(st))

IsDoneOf(e, st) == e.type = "xstate.done.actor." \o invokeId(st)

IsErrorOf(e, st) == e.type = "xstate.error.actor." \o invokeId(st)

InitialContext(sessionId) ==
    [sessionId |-> Or(sessionId, "FALLBACK_EMPTY"), userId |-> "",
     messages |-> <<>>, agentId |-> undefined, error |-> undefined,
     surveyData |-> undefined, email |-> undefined]

NoParams == [type |-> undefined, content |-> undefined, metadata |-> NoMeta]

Message(role, content, metadata) ==
    [role |-> role, content |-> content, metadata |-> metadata]

\* variant: the new message is put at the head of the list
addMessageToContextAtHead(context, event, params) ==
    LET eventType == Or(params.type, event.type)
        content == Or(params.content, Or(event.content, event.message))
        metadata == IF params.metadata # NoMeta THEN params.metadata
                    ELSE event.metadata
    IN  IF eventType = "USER_MESSAGE"
        THEN [context EXCEPT
                !.messages = <<Message("user", content, NoMeta)>> \o @]
        ELSE IF eventType = "BOT_RESPONSE" \/ eventType = "EMAIL_INVALID"
        THEN [context EXCEPT
                !.messages = <<Message("bot", content, metadata)>> \o @]
        ELSE IF eventType = "AGENT_MESSAGE"
        THEN [context EXCEPT
                !.messages = <<Message("agent", content, NoMeta)>> \o @]
        ELSE context

addMessageToContext(context, event, params) ==
    LET eventType == Or(params.type, event.type)
        content == Or(params.content, Or(event.content, event.message))
        metadata == IF params.metadata # NoMeta THEN params.metadata
                    ELSE event.metadata
    IN  IF eventType = "USER_MESSAGE"
        THEN [context EXCEPT
                !.messages = Append(@, Message("user", content, NoMeta))]
        ELSE IF eventType = "BOT_RESPONSE" \/ eventType = "EMAIL_INVALID"
        THEN [context EXCEPT
                !.messages = Append(@, Message("bot", content, metadata))]
        ELSE IF eventType = "AGENT_MESSAGE"
        THEN [context EXCEPT
                !.messages = Append(@, Message("agent", content, NoMeta))]
        ELSE context

setAgentId(context, event) ==
    [context EXCEPT !.agentId =
        IF event.type = "AGENT_CONNECTED" THEN event.agentId ELSE undefined]

logError(context, event) ==
    [context EXCEPT !.error =
        IF event.type = "SYSTEM_ERROR" THEN event.message ELSE undefined]

FromDoneActor(event) == startsWith(event.type, "xstate.done.actor.")

isLiveAgentRequested(event) ==
    \/ event.type = "BOT_RESPONSE" /\ "liveAgentRequested" \in event.metadata
    \/ FromDoneActor(event) /\ "liveAgentRequested" \in event.output.metadata

isSurveyRequested(event) ==
    \/ event.type = "BOT_RESPONSE" /\ "startSurvey" \in event.metadata
    \/ FromDoneActor(event) /\ "startSurvey" \in event.output.metadata

isEmailTranscriptRequested(event) ==
    \/ event.type = "BOT_RESPONSE" /\ "emailRequested" \in event.metadata
    \/ FromDoneActor(event) /\ "emailRequested" \in event.output.metadata

isLiveAgentIssue(event) ==
    FromDoneActor(event) /\ "liveAgentIssue" \in event.output.metadata

----------------------------------------------------------------------------
(* session.machine.ts: state nodes.  Each operator gives the state value   *)
(* and context after one macrostep taken from that node on `event`.        *)

To(target, context) == [state |-> target, ctx |-> context]

idle(context, event) ==
    IF event.type = "USER_MESSAGE"
    THEN To("botActive.processing", addMessageToContext(context, event, NoParams))
    ELSE IF event.type = "BOT_RESPONSE"
    THEN LET c == addMessageToContext(context, event, NoParams)
         IN  IF isEmailTranscriptRequested(event)
             THEN To("emailTranscript.emailRequested", c)
             ELSE IF isLiveAgentRequested(event) THEN To("handover", c)
             ELSE IF isSurveyRequested(event) THEN To("survey", c)
             ELSE To("botActive.inputReceived", c)
    ELSE IF event.type = "AGENT_CONNECTED"
    THEN To("agentActive.connected", setAgentId(context, event))
    ELSE IF event.type = "AGENT_MESSAGE"
    THEN To("agentActive.connected", addMessageToContext(context, event, NoParams))
    ELSE IF event.type = "LIVE_AGENT_REQUESTED" THEN To("handover", context)
    ELSE IF event.type = "EMAIL_TRANSCRIPT_REQUESTED"
    THEN To("emailTranscript.emailRequested", context)
    ELSE IF event.type = "USER_ENDED_CHAT" THEN To("closed", context)
    ELSE To("idle", context)

\* the `on` of the composite botActive, tried after the active sub-state's own
\* variant: an agent's message takes the session to the agent and is lost
botActiveDropsAgentMessage(sub, context, event) ==
    IF event.type = "AGENT_CONNECTED"
    THEN To("agentActive.connected", setAgentId(context, event))
    ELSE IF event.type = "AGENT_MESSAGE"
    THEN To("agentActive.connected", context)
    ELSE IF event.type = "LIVE_AGENT_REQUESTED" THEN To("handover", context)
    ELSE IF event.type = "EMAIL_TRANSCRIPT_REQUESTED"
    THEN To("emailTranscript.emailRequested", context)
    ELSE IF event.type = "USER_ENDED_CHAT" THEN To("closed", context)
    ELSE IF event.type = "BOT_RESPONSE"
    THEN LET c == addMessageToContext(context, event, NoParams)
         IN  IF isEmailTranscriptRequested(event)
             THEN To("emailTranscript.emailRequested", c)
             ELSE IF isLiveAgentRequested(event) THEN To("handover", c)
             ELSE IF isSurveyRequested(event) THEN To("survey", c)
             ELSE To("botActive.inputReceived", c)
    ELSE To(sub, context)

botActive(sub, context, event) ==
    IF event.type = "AGENT_CONNECTED"
    THEN To("agentActive.connected", setAgentId(context, event))
    ELSE IF event.type = "AGENT_MESSAGE"
    THEN To("agentActive.connected", addMessageToContext(context, event, NoParams))
    ELSE IF event.type = "LIVE_AGENT_REQUESTED" THEN To("handover", context)
    ELSE IF event.type = "EMAIL_TRANSCRIPT_REQUESTED"
    THEN To("emailTranscript.emailRequested", context)
    ELSE IF event.type = "USER_ENDED_CHAT" THEN To("closed", context)
    ELSE IF event.type = "BOT_RESPONSE"
    THEN LET c == addMessageToContext(context, event, NoParams)
         IN  IF isEmailTranscriptRequested(event)
             THEN To("emailTranscript.emailRequested", c)
             ELSE IF isLiveAgentRequested(event) THEN To("handover", c)
             ELSE IF isSurveyRequested(event) THEN To("survey", c)
             ELSE To("botActive.inputReceived", c)
    ELSE To(sub, context)

\* botActive.decision: the eventless transitions, guarded on the event that
\* brought the machine there
decision(context, event) ==
    IF isLiveAgentRequested(event) THEN To("handover", context)
    ELSE IF isSurveyRequested(event) THEN To("survey", context)
    ELSE IF isEmailTranscriptRequested(event) THEN To("sendingEmail", context)
    ELSE To("botActive.inputReceived", context)

processing(context, event) ==
    IF IsDoneOf(event, "botActive.processing")
    THEN decision(addMessageToContext(context, event,
                      [type |-> "BOT_RESPONSE",
                       content |-> event.output.content,
                       metadata |-> event.output.metadata]),
                  event)
    ELSE IF IsErrorOf(event, "botActive.processing") THEN To("failure", context)
    ELSE botActive("botActive.processing", context, event)

inputReceived(context, event) ==
    IF event.type = "USER_MESSAGE"
    THEN To("botActive.processing", addMessageToContext(context, event, NoParams))
    ELSE IF event.type = "BOT_RESPONSE"
    THEN LET c == addMessageToContext(context, event, NoParams)
         IN  IF isEmailTranscriptRequested(event) THEN To("sendingEmail", c)
             ELSE IF isLiveAgentRequested(event) THEN To("handover", c)
             ELSE IF isSurveyRequested(event) THEN To("survey", c)
             ELSE To("botActive.inputReceived", c)
    ELSE IF event.type = "USER_ENDED_CHAT" THEN To("closed", context)
    ELSE botActive("botActive.inputReceived", context, event)

\* variant: a completed connect call always falls back to the bot
handoverFallsBack(context, event) ==
    IF event.type = "LIVE_AGENT_ISSUE" THEN To("botActive.inputReceived", context)
    ELSE IF IsDoneOf(event, "handover")
    THEN To("botActive.inputReceived", context)
    ELSE IF IsErrorOf(event, "handover")
    THEN To("botActive.inputReceived", logError(context, event))
    ELSE To("handover", context)

handover(context, event) ==
    IF event.type = "LIVE_AGENT_ISSUE" THEN To("botActive.inputReceived", context)
    ELSE IF IsDoneOf(event, "handover")
    THEN IF isLiveAgentIssue(event) THEN To("botActive.inputReceived", context)
         ELSE To("agentActive.connected", context)
    ELSE IF IsErrorOf(event, "handover")
    THEN To("botActive.inputReceived", logError(context, event))
    ELSE To("handover", context)

\* variant: agentActive has no transition for LIVE_AGENT_ISSUE
agentActiveIgnoresIssue(context, event) ==
    IF event.type = "USER_MESSAGE"
    THEN To("agentActive.connected", addMessageToContext(context, event, NoParams))
    ELSE IF event.type = "AGENT_MESSAGE"
    THEN To("agentActive.connected", addMessageToContext(context, event, NoParams))
    ELSE IF event.type = "AGENT_ENDED_CHAT" THEN To("survey", context)
    ELSE IF event.type = "USER_ENDED_CHAT" THEN To("closed", context)
    ELSE To("agentActive.connected", context)

\* variant: the agent ending the chat closes the session
agentActiveEndsClosed(context, event) ==
    IF event.type = "USER_MESSAGE"
    THEN To("agentActive.connected", addMessageToContext(context, event, NoParams))
    ELSE IF event.type = "AGENT_MESSAGE"
    THEN To("agentActive.connected", addMessageToContext(context, event, NoParams))
    ELSE IF event.type = "AGENT_ENDED_CHAT" THEN To("closed", context)
    ELSE IF event.type = "USER_ENDED_CHAT" THEN To("closed", context)
    ELSE IF event.type = "LIVE_AGENT_ISSUE" THEN To("botActive.inputReceived", context)
    ELSE To("agentActive.connected", context)

agentActive(context, event) ==
    IF event.type = "USER_MESSAGE"
    THEN To("agentActive.connected", addMessageToContext(context, event, NoParams))
    ELSE IF event.type = "AGENT_MESSAGE"
    THEN To("agentActive.connected", addMessageToContext(context, event, NoParams))
    ELSE IF event.type = "AGENT_ENDED_CHAT" THEN To("survey", context)
    ELSE IF event.type = "USER_ENDED_CHAT" THEN To("closed", context)
    ELSE IF event.type = "LIVE_AGENT_ISSUE" THEN To("botActive.inputReceived", context)
    ELSE To("agentActive.connected", context)

\* variant: a submitted survey closes the session without being stored
surveyDropsData(context, event) ==
    IF event.type = "SUBMIT_SURVEY" THEN To("closed", context)
    ELSE IF event.type = "USER_ENDED_CHAT" THEN To("closed", context)
    ELSE IF event.type = "BOT_RESPONSE"
    THEN To("survey", addMessageToContext(context, event, NoParams))
    ELSE To("survey", context)

\* variant: survey waits for the submission only
surveyIgnoresUser(context, event) ==
    IF event.type = "SUBMIT_SURVEY"
    THEN To("closed", [context EXCEPT !.surveyData = event.data])
    ELSE IF event.type = "BOT_RESPONSE"
    THEN To("survey", addMessageToContext(context, event, NoParams))
    ELSE To("survey", context)

survey(context, event) ==
    IF event.type = "SUBMIT_SURVEY"
    THEN To("closed", [context EXCEPT !.surveyData = event.data])
    ELSE IF event.type = "USER_ENDED_CHAT" THEN To("closed", context)
    ELSE IF event.type = "BOT_RESPONSE"
    THEN To("survey", addMessageToContext(context, event, NoParams))
    ELSE To("survey", context)

\* the `on` of the composite emailTranscript
\* variant: the email phase does not take the user's end of chat
emailTranscriptKeepsOpen(sub, context, event) ==
    IF event.type = "BOT_RESPONSE"
    THEN To(sub, addMessageToContext(context, event, NoParams))
    ELSE To(sub, context)

emailTranscript(sub, context, event) ==
    IF event.type = "USER_ENDED_CHAT" THEN To("closed", context)
    ELSE IF event.type = "BOT_RESPONSE"
    THEN To(sub, addMessageToContext(context, event, NoParams))
    ELSE To(sub, context)

\* variant: a user message in emailRequested is kept as a chat message and
\* not taken as the address
emailRequestedKeepsUserMessage(context, event) ==
    IF event.type = "EMAIL_PROVIDED"
    THEN To("emailTranscript.emailReceived", [context EXCEPT !.email = event.email])
    ELSE IF event.type = "USER_MESSAGE"
    THEN To("emailTranscript.emailReceived",
            addMessageToContext(context, event, NoParams))
    ELSE IF event.type = "EMAIL_VALIDATED"
    THEN To("sendingEmail", [context EXCEPT !.email = event.email])
    ELSE IF event.type = "EMAIL_INVALID"
    THEN To("emailTranscript.emailRequested",
            addMessageToContext(context, event, NoParams))
    ELSE IF event.type = "BOT_RESPONSE"
    THEN To("emailTranscript.emailRequested",
            addMessageToContext(context, event, NoParams))
    ELSE emailTranscript("emailTranscript.emailRequested", context, event)

emailRequested(context, event) ==
    IF event.type = "EMAIL_PROVIDED"
    THEN To("emailTranscript.emailReceived", [context EXCEPT !.email = event.email])
    ELSE IF event.type = "USER_MESSAGE"
    THEN To("emailTranscript.emailReceived", [context EXCEPT !.email = event.content])
    ELSE IF event.type = "EMAIL_VALIDATED"
    THEN To("sendingEmail", [context EXCEPT !.email = event.email])
    ELSE IF event.type = "EMAIL_INVALID"
    THEN To("emailTranscript.emailRequested",
            addMessageToContext(context, event, NoParams))
    ELSE IF event.type = "BOT_RESPONSE"
    THEN To("emailTranscript.emailRequested",
            addMessageToContext(context, event, NoParams))
    ELSE emailTranscript("emailTranscript.emailRequested", context, event)

\* variant: an invalid address leaves the session in emailReceived
emailReceivedKeepsState(context, event) ==
    IF event.type = "EMAIL_VALIDATED"
    THEN To("sendingEmail", [context EXCEPT !.email = event.email])
    ELSE IF event.type = "EMAIL_INVALID"
    THEN To("emailTranscript.emailReceived",
            addMessageToContext(context, event, NoParams))
    ELSE IF event.type = "BOT_RESPONSE"
    THEN To("emailTranscript.emailReceived",
            addMessageToContext(context, event, NoParams))
    ELSE emailTranscript("emailTranscript.emailReceived", context, event)

emailReceived(context, event) ==
    IF event.type = "EMAIL_VALIDATED"
    THEN To("sendingEmail", [context EXCEPT !.email = event.email])
    ELSE IF event.type = "EMAIL_INVALID"
    THEN To("emailTranscript.emailRequested",
            addMessageToContext(context, event, NoParams))
    ELSE IF event.type = "BOT_RESPONSE"
    THEN To("emailTranscript.emailReceived",
            addMessageToContext(context, event, NoParams))
    ELSE emailTranscript("emailTranscript.emailReceived", context, event)

sendingEmail(context, event) ==
    IF IsDoneOf(event, "sendingEmail") THEN To("botActive.inputReceived", context)
    ELSE IF IsErrorOf(event, "sendingEmail")
    THEN To("botActive.inputReceived", context)
    ELSE To("sendingEmail", context)

closed(context, event) == To("closed", context)

\* variant: failure has no transition for USER_MESSAGE
failureWithoutResume(context, event) ==
    IF event.type = "BOT_RESPONSE"
    THEN LET c == addMessageToContext(context, event, NoParams)
         IN  IF isEmailTranscriptRequested(event)
             THEN To("emailTranscript.emailRequested", c)
             ELSE IF isLiveAgentRequested(event) THEN To("handover", c)
             ELSE IF isSurveyRequested(event) THEN To("survey", c)
             ELSE To("botActive.inputReceived", c)
    ELSE To("failure", context)

failure(context, event) ==
    IF event.type = "USER_MESSAGE" THEN To("botActive.processing", context)
    ELSE IF event.type = "BOT_RESPONSE"
    THEN LET c == addMessageToContext(context, event, NoParams)
         IN  IF isEmailTranscriptRequested(event)
             THEN To("emailTranscript.emailRequested", c)
             ELSE IF isLiveAgentRequested(event) THEN To("handover", c)
             ELSE IF isSurveyRequested(event) THEN To("survey", c)
             ELSE To("botActive.inputReceived", c)
    ELSE To("failure", context)

FinalStates == {"closed"}

InvokingStates == {"botActive.processing", "handover", "sendingEmail"}

sessionMachine(st, context, event) ==
    CASE st = "idle" -> idle(context, event)
      [] st = "botActive.processing" -> processing(context, event)
      [] st = "botActive.inputReceived" -> inputReceived(context, event)
      [] st = "handover" -> handover(context, event)
      [] st = "agentActive.connected" -> agentActive(context, event)
      [] st = "survey" -> survey(context, event)
      [] st = "emailTranscript.emailRequested" -> emailRequested(context, event)
      [] st = "emailTranscript.emailReceived" -> emailReceived(context, event)
      [] st = "sendingEmail" -> sendingEmail(context, event)
      [] st = "failure" -> failure(context, event)
      [] st = "closed" -> closed(context, event)

\* the input of the actor invoked on entering `st` by `event`
lastUserMsg(context) ==
    LET users == {i \in 1..Len(context.messages) : context.messages[i].role = "user"}
    IN  IF users = {} THEN undefined ELSE context.messages[Max(users)].content

\* variant: the dialogue input reads the trigger's field name (message)
\* instead of the machine event's (content)
invokeInputFromMessageField(st, context, event) ==
    IF st = "botActive.processing"
    THEN [message |-> undefined, sessionId |-> context.sessionId,
          email |-> undefined]
    ELSE IF st = "handover"
    THEN [message |-> undefined, sessionId |-> context.sessionId,
          email |-> undefined]
    ELSE LET email == Or(context.email, event.email)
         IN  [message |-> undefined, sessionId |-> context.sessionId,
              email |-> IF ~Falsy(email) THEN email
                        ELSE Or(lastUserMsg(context), "")]

\* variant: the transcript input has no fallback to the last user message
invokeInputWithoutFallback(st, context, event) ==
    IF st = "botActive.processing"
    THEN [message |-> event.content, sessionId |-> context.sessionId,
          email |-> undefined]
    ELSE IF st = "handover"
    THEN [message |-> undefined, sessionId |-> context.sessionId,
          email |-> undefined]
    ELSE [message |-> undefined, sessionId |-> context.sessionId,
          email |-> Or(Or(context.email, event.email), "")]

invokeInput(st, context, event) ==
    IF st = "botActive.processing"
    THEN [message |-> event.content, sessionId |-> context.sessionId,
          email |-> undefined]
    ELSE IF st = "handover"
    THEN [message |-> undefined, sessionId |-> context.sessionId,
          email |-> undefined]
    ELSE LET email == Or(context.email, event.email)
         IN  [message |-> undefined, sessionId |-> context.sessionId,
              email |-> IF ~Falsy(email) THEN email
                        ELSE Or(lastUserMsg(context), "")]

invokeSrc(st) ==
    IF st = "botActive.processing" THEN "sendToDialogflow"
    ELSE IF st = "handover" THEN "connectToLiveAgent"
    ELSE "sendEmailTranscript"

----------------------------------------------------------------------------
(* AppService (part_008): the registry, the actor subscription, actor.send *)

\* The program state as one value, so that a handler is a composition of
\* the calls it makes.
World ==
    [sessions |-> sessions, state |-> state, ctx |-> ctx,
     lastMessageCount |-> lastMessageCount, stream |-> stream,
     actorsCreated |-> actorsCreated, actorCalls |-> actorCalls,
     triggerCalls |-> triggerCalls]

\* F applied to the value of x
Apply(F(_), x) == CHOOSE r \in {F(v) : v \in {x}} : TRUE

Becomes(world) ==
    \E w \in {world} :
        /\ sessions' = w.sessions
        /\ state' = w.state
        /\ ctx' = w.ctx
        /\ lastMessageCount' = w.lastMessageCount
        /\ stream' = w.stream
        /\ actorsCreated' = w.actorsCreated
        /\ actorCalls' = w.actorCalls
        /\ triggerCalls' = w.triggerCalls

StateUpdate(st, context) ==
    [type |-> "state_update", via |-> "subscribe", state |-> st,
     context |-> context, plainText |-> undefined, participant |-> undefined,
     meta |-> NoMeta]

BotMessage(via, plainText, participant, meta) ==
    [type |-> "bot_message", via |-> via, state |-> undefined,
     context |-> undefined, plainText |-> plainText,
     participant |-> participant, meta |-> meta]

\* variant: one stream serves every session of the registry
subscribeSharedStream(world, sessionId) ==
    Apply(LAMBDA w :
        LET msgs == w.ctx[sessionId].messages
            last == w.lastMessageCount[sessionId]
            newMsgs == SubSeq(msgs, last + 1, Len(msgs))
            shown == SelectSeq(newMsgs, LAMBDA msg : msg.role # "user")
            emitted == [i \in 1..Len(shown) |->
                          BotMessage("subscribe", shown[i].content,
                                     shown[i].role, NoMeta)]
            update == StateUpdate(w.state[sessionId], w.ctx[sessionId])
            put == IF Len(msgs) > last THEN emitted \o <<update>>
                   ELSE <<update>>
        IN  [w EXCEPT !.stream = [s \in DOMAIN @ |->
                                    IF s \in w.sessions THEN @[s] \o put
                                    ELSE @[s]],
                      !.lastMessageCount[sessionId] = Len(msgs)],
        world)

\* variant: lastMessageCount is not brought up to the list length
subscribeKeepsCount(world, sessionId) ==
    Apply(LAMBDA w :
        LET msgs == w.ctx[sessionId].messages
            last == w.lastMessageCount[sessionId]
            newMsgs == SubSeq(msgs, last + 1, Len(msgs))
            shown == SelectSeq(newMsgs, LAMBDA msg : msg.role # "user")
            emitted == [i \in 1..Len(shown) |->
                          BotMessage("subscribe", shown[i].content,
                                     shown[i].role, NoMeta)]
            update == StateUpdate(w.state[sessionId], w.ctx[sessionId])
        IN  IF Len(msgs) > last
            THEN [w EXCEPT !.stream[sessionId] = (@ \o emitted) \o <<update>>]
            ELSE [w EXCEPT !.stream[sessionId] = Append(@, update)],
        world)

\* variant: the role of a new message is not looked at
subscribeEveryRole(world, sessionId) ==
    Apply(LAMBDA w :
        LET msgs == w.ctx[sessionId].messages
            last == w.lastMessageCount[sessionId]
            shown == SubSeq(msgs, last + 1, Len(msgs))
            emitted == [i \in 1..Len(shown) |->
                          BotMessage("subscribe", shown[i].content,
                                     shown[i].role, NoMeta)]
            update == StateUpdate(w.state[sessionId], w.ctx[sessionId])
        IN  IF Len(msgs) > last
            THEN [w EXCEPT !.stream[sessionId] = (@ \o emitted) \o <<update>>,
                           !.lastMessageCount[sessionId] = Len(msgs)]
            ELSE [w EXCEPT !.stream[sessionId] = Append(@, update)],
        world)

\* variant: the state update is put on the stream before the new messages
subscribeSnapshotFirst(world, sessionId) ==
    Apply(LAMBDA w :
        LET msgs == w.ctx[sessionId].messages
            last == w.lastMessageCount[sessionId]
            newMsgs == SubSeq(msgs, last + 1, Len(msgs))
            shown == SelectSeq(newMsgs, LAMBDA msg : msg.role # "user")
            emitted == [i \in 1..Len(shown) |->
                          BotMessage("subscribe", shown[i].content,
                                     shown[i].role, NoMeta)]
            update == StateUpdate(w.state[sessionId], w.ctx[sessionId])
        IN  IF Len(msgs) > last
            THEN [w EXCEPT !.stream[sessionId] = (@ \o <<update>>) \o emitted,
                           !.lastMessageCount[sessionId] = Len(msgs)]
            ELSE [w EXCEPT !.stream[sessionId] = Append(@, update)],
        world)

\* the callback given to actor.subscribe
subscribe(world, sessionId) ==
    Apply(LAMBDA w :
        LET msgs == w.ctx[sessionId].messages
            last == w.lastMessageCount[sessionId]
            newMsgs == SubSeq(msgs, last + 1, Len(msgs))
            shown == SelectSeq(newMsgs, LAMBDA msg : msg.role # "user")
            emitted == [i \in 1..Len(shown) |->
                          BotMessage("subscribe", shown[i].content,
                                     shown[i].role, NoMeta)]
            update == StateUpdate(w.state[sessionId], w.ctx[sessionId])
        IN  IF Len(msgs) > last
            THEN [w EXCEPT !.stream[sessionId] = (@ \o emitted) \o <<update>>,
                           !.lastMessageCount[sessionId] = Len(msgs)]
            ELSE [w EXCEPT !.stream[sessionId] = Append(@, update)],
        world)

\* variant: the registry is not consulted
getOrCreateSessionAlways(world, sessionId) ==
    Apply(LAMBDA w :
        subscribe(
            [w EXCEPT !.sessions = @ \cup {sessionId},
                      !.state[sessionId] = "idle",
                      !.ctx[sessionId] = InitialContext(sessionId),
                      !.lastMessageCount[sessionId] = 0,
                      !.stream[sessionId] = <<>>,
                      !.actorsCreated[sessionId] = @ + 1],
            sessionId),
        world)

\* variant: an entry whose actor has stopped is replaced
getOrCreateSessionReplacesStopped(world, sessionId) ==
    Apply(LAMBDA w :
        IF sessionId \in w.sessions /\ w.state[sessionId] # "closed" THEN w
        ELSE subscribe(
               [w EXCEPT !.sessions = @ \cup {sessionId},
                         !.state[sessionId] = "idle",
                         !.ctx[sessionId] = InitialContext(sessionId),
                         !.lastMessageCount[sessionId] = 0,
                         !.stream[sessionId] = <<>>,
                         !.actorsCreated[sessionId] = @ + 1],
               sessionId),
        world)

getOrCreateSession(world, sessionId) ==
    Apply(LAMBDA w :
        IF sessionId \in w.sessions THEN w
        ELSE subscribe(
               [w EXCEPT !.sessions = @ \cup {sessionId},
                         !.state[sessionId] = "idle",
                         !.ctx[sessionId] = InitialContext(sessionId),
                         !.lastMessageCount[sessionId] = 0,
                         !.stream[sessionId] = <<>>,
                         !.actorsCreated[sessionId] = @ + 1],
               sessionId),
        world)

\* a promise of an invoked actor: `attached` while the child actor that
\* awaits it has not been stopped; `timer` is the 15 s timer of
\* sendToDialogflow
ActorCall(sessionId, st, context, event) ==
    [sessionId |-> sessionId, src |-> invokeSrc(st), state |-> st,
     input |-> invokeInput(st, context, event), attached |-> TRUE,
     timer |-> IF st = "botActive.processing" THEN "armed" ELSE "none"]

Detach(calls, sessionId) ==
    [i \in 1..Len(calls) |->
        IF calls[i].sessionId = sessionId
        THEN [calls[i] EXCEPT !.attached = FALSE] ELSE calls[i]]

Remove(seq, i) == SubSeq(seq, 1, i - 1) \o SubSeq(seq, i + 1, Len(seq))

\* actor.send: one macrostep of the machine, the invoked actors it stops
\* and starts, then the subscription.  A stopped actor (final state
\* reached) drops the event.
send(world, sessionId, event) ==
    Apply(LAMBDA w :
        IF w.state[sessionId] \in FinalStates THEN w
        ELSE Apply(LAMBDA t :
                LET old == w.state[sessionId]
                    moved == t.state # old
                    stopped == IF moved /\ old \in InvokingStates
                               THEN Detach(w.actorCalls, sessionId)
                               ELSE w.actorCalls
                    started == IF moved /\ t.state \in InvokingStates
                               THEN Append(stopped,
                                      ActorCall(sessionId, t.state, t.ctx, event))
                               ELSE stopped
                IN  subscribe([w EXCEPT !.state[sessionId] = t.state,
                                        !.ctx[sessionId] = t.ctx,
                                        !.actorCalls = started],
                              sessionId),
                sessionMachine(w.state[sessionId], w.ctx[sessionId], event)),
        world)

----------------------------------------------------------------------------
(* AppService (part_008): the actors provided to the machine *)

\* a reply of the workflow backend as callN8n returns it; isNull is the
\* null that callN8n returns when the HTTP call fails
Response(plainText, text, message, escalate, meta) ==
    [isNull |-> FALSE, plainText |-> plainText, text |-> text,
     message |-> message, escalate |-> escalate, meta |-> meta]

Null ==
    [isNull |-> TRUE, plainText |-> undefined, text |-> undefined,
     message |-> undefined, escalate |-> FALSE, meta |-> NoMeta]

\* the value the sendToDialogflow promise resolves with
sendToDialogflow(response) ==
    LET raw == Or(Or(Or(response.plainText, response.text), response.message), "")
        escalationTagFound == includes(raw, escalationTag)
        cleaned == IF escalationTagFound
                   THEN trim(replace(raw, escalationTag, "")) ELSE raw
        content == IF cleaned = "firstEntryJson" THEN "" ELSE cleaned
    IN  [content |-> content,
         metadata |->
            (IF \/ escalationTagFound
                \/ response.escalate
                \/ "liveAgentRequested" \in response.meta
             THEN {"liveAgentRequested"} ELSE {})
            \cup
            (IF "chatEnded" \in response.meta THEN {"startSurvey"} ELSE {})]

\* connectToLiveAgent and sendEmailTranscript resolve with no value
actorOutput(src, response) ==
    IF src = "sendToDialogflow" THEN sendToDialogflow(response) ELSE NoOutput

timeoutNotice == "Sorry, I'm taking a bit longer than expected. Please try again."

----------------------------------------------------------------------------
(* AppService (part_008): handleTrigger, injectMessage, getSessionStream *)

specialTriggerMap ==
    [type \in {"__endchat__", "__email_transcript__", "__greeting__",
               "SURVEY_SUBMITTED"} |->
        CASE type = "__endchat__" ->
               [n8nUrlKey |-> "N8N_END_CHAT_URL",
                machineEvent |-> "USER_ENDED_CHAT", meta |-> {"chatEnded"}]
          [] type = "__email_transcript__" ->
               [n8nUrlKey |-> "N8N_TRANSCRIPT_URL",
                machineEvent |-> undefined, meta |-> {"emailSent"}]
          [] type = "__greeting__" ->
               [n8nUrlKey |-> "N8N_GREETING_URL",
                machineEvent |-> undefined, meta |-> NoMeta]
          [] type = "SURVEY_SUBMITTED" ->
               [n8nUrlKey |-> "N8N_ANALYTICS_URL",
                machineEvent |-> "SUBMIT_SURVEY", meta |-> NoMeta]]

\* the keys for which the configuration holds a URL
ConfiguredUrls ==
    {"N8N_END_CHAT_URL", "N8N_TRANSCRIPT_URL", "N8N_GREETING_URL",
     "N8N_ANALYTICS_URL", "N8N_LLM_URL", "N8N_LIVE_AGENT_QUEUE_URL",
     "N8N_LIVE_AGENT_ACTIVE_URL", "N8N_EMAIL_TRANSCRIPT_URL"}

getN8nUrl(key) == IF key \in ConfiguredUrls THEN key ELSE ""

Payload(type, message) ==
    [type |-> type, message |-> message, content |-> undefined,
     metadata |-> NoMeta, email |-> undefined, agentId |-> undefined,
     data |-> undefined]

\* the type handleTrigger works with: payload.type, else inferred
\* variant: a message without a type is always a user message
triggerTypeAlwaysUserMessage(payload) ==
    IF Falsy(payload.type) /\ ~Falsy(payload.message)
    THEN "USER_MESSAGE"
    ELSE payload.type

triggerType(payload) ==
    IF Falsy(payload.type) /\ ~Falsy(payload.message)
    THEN IF startsWith(payload.message, "__") /\ endsWith(payload.message, "__")
         THEN payload.message ELSE "USER_MESSAGE"
    ELSE payload.type

\* { type: t, ...remainingPayload }: a type in the payload overrides t
spreadEvent(t, payload) ==
    [Ev(IF payload.type # undefined THEN payload.type ELSE t) EXCEPT
        !.message = payload.message, !.content = payload.content,
        !.metadata = payload.metadata, !.email = payload.email,
        !.agentId = payload.agentId, !.data = payload.data]

\* handleTrigger after the special trigger's backend call (lines 350-353)
sendMachineEvent(w, sessionId, type, payload) ==
    IF specialTriggerMap[type].machineEvent # undefined
    THEN send(w, sessionId,
              spreadEvent(specialTriggerMap[type].machineEvent, payload))
    ELSE w

\* handleTrigger from the reply of callN8n on (lines 303-353)
handleTriggerResponse(w, sessionId, type, payload, response) ==
    LET raw == Or(Or(response.plainText, response.text), "")
        escalationTagFound == includes(raw, escalationTag)
        plainText == IF escalationTagFound
                     THEN trim(replace(raw, escalationTag, "")) ELSE raw
        liveAgentRequested ==
            \/ escalationTagFound
            \/ "liveAgentRequested" \in response.meta
            \/ response.escalate
        meta == ((specialTriggerMap[type].meta \cup response.meta)
                    \ {"liveAgentRequested"})
                \cup (IF liveAgentRequested THEN {"liveAgentRequested"} ELSE {})
        w1 == [w EXCEPT !.stream[sessionId] =
                 Append(@, BotMessage("handleTrigger", plainText, "bot", meta))]
        w2 == IF liveAgentRequested
              THEN send(w1, sessionId, Ev("LIVE_AGENT_REQUESTED")) ELSE w1
        w3 == send(w2, sessionId,
                   [Ev("BOT_RESPONSE") EXCEPT !.content = plainText,
                                              !.metadata = meta])
    IN  sendMachineEvent(
            IF ~response.isNull /\ plainText # "firstEntryJson" THEN w3 ELSE w,
            sessionId, type, payload)

\* handleTrigger up to its first await, or to its end when it awaits nothing
handleTrigger(w, sessionId, payload) ==
    LET w1 == getOrCreateSession(w, sessionId)
        type == triggerType(payload)
    IN  IF type \in DOMAIN specialTriggerMap
        THEN IF getN8nUrl(specialTriggerMap[type].n8nUrlKey) # ""
             THEN [w1 EXCEPT !.triggerCalls =
                     Append(@, [sessionId |-> sessionId, type |-> type,
                                payload |-> payload])]
             ELSE sendMachineEvent(w1, sessionId, type, payload)
        ELSE IF type = "USER_MESSAGE"
        THEN send(w1, sessionId,
                  [Ev("USER_MESSAGE") EXCEPT !.content = payload.message])
        ELSE send(w1, sessionId, spreadEvent(type, payload))

Injected(participant, plainText, meta) ==
    [participant |-> participant, plainText |-> plainText, text |-> undefined,
     content |-> undefined, message |-> undefined, meta |-> meta]

injectMessage(w, sessionId, message) ==
    LET w0 == getOrCreateSession(w, sessionId)
        raw == Or(Or(Or(Or(message.plainText, message.text), message.content),
                     message.message), "")
        escalationTagFound == includes(raw, escalationTag)
        content == IF escalationTagFound
                   THEN trim(replace(raw, escalationTag, "")) ELSE raw
        shown == IF escalationTagFound THEN content ELSE message.plainText
        w1 == IF "liveAgentRequested" \in message.meta \/ escalationTagFound
              THEN send(w0, sessionId, Ev("LIVE_AGENT_REQUESTED")) ELSE w0
        w2 == IF "chatEnded" \in message.meta
              THEN send(w1, sessionId, Ev("USER_ENDED_CHAT")) ELSE w1
        w3 == IF message.meta \cap {"livechatIssue", "liveChatIssue",
                                    "liveAgentIssue"} # {}
              THEN send(w2, sessionId, Ev("LIVE_AGENT_ISSUE")) ELSE w2
    IN  IF message.participant = "agent" \/ message.participant = "bot"
        THEN send(w3, sessionId,
                  [Ev("BOT_RESPONSE") EXCEPT !.content = content,
                                             !.metadata = message.meta])
        ELSE [w3 EXCEPT !.stream[sessionId] =
                Append(@, BotMessage("injectMessage", shown,
                                     message.participant, message.meta))]

getSessionStream(w, sessionId) ==
    IF sessionId \notin w.sessions THEN getOrCreateSession(w, sessionId) ELSE w

----------------------------------------------------------------------------
(* Inputs *)

RoutingFlags == {"emailRequested", "liveAgentRequested", "startSurvey"}

\* the events of ChatEvent, one of each shape, BOT_RESPONSE with every
\* combination of the routing flags
MachineEvents ==
    {[Ev("USER_MESSAGE") EXCEPT !.content = "hello"],
     [Ev("AGENT_CONNECTED") EXCEPT !.agentId = "agent-7"],
     [Ev("AGENT_MESSAGE") EXCEPT !.content = "agent here"],
     Ev("AGENT_ENDED_CHAT"), Ev("USER_ENDED_CHAT"),
     [Ev("SUBMIT_SURVEY") EXCEPT !.data = "5 stars"],
     [Ev("SYSTEM_ERROR") EXCEPT !.message = "boom"],
     Ev("LIVE_AGENT_REQUESTED"), Ev("LIVE_AGENT_ISSUE"),
     Ev("EMAIL_TRANSCRIPT_REQUESTED"),
     [Ev("EMAIL_PROVIDED") EXCEPT !.email = "bad"],
     [Ev("EMAIL_VALIDATED") EXCEPT !.email = "a@b.c"],
     [Ev("EMAIL_INVALID") EXCEPT !.message = "not an email"]}
    \cup
    {[Ev("BOT_RESPONSE") EXCEPT !.content = "ok", !.metadata = m] :
        m \in SUBSET RoutingFlags}

\* a trigger that names its machine event in payload.type
TypedPayload(e) ==
    [type |-> e.type, message |-> e.message, content |-> e.content,
     metadata |-> e.metadata, email |-> e.email, agentId |-> e.agentId,
     data |-> e.data]

ProbePayload == Payload(undefined, undefined)

\* the triggers of the service: an ordinary message, the named triggers, an
\* unknown named trigger, a payload with neither type nor message, and
\* payloads that name a machine event in `type`
TriggerPayloads ==
    {Payload(undefined, "hello"), Payload(undefined, "__endchat__"),
     Payload(undefined, "__email_transcript__"),
     Payload(undefined, "__greeting__"), Payload(undefined, "__ping__"),
     [Payload("SURVEY_SUBMITTED", undefined) EXCEPT !.data = "5 stars"],
     ProbePayload}
    \cup
    {TypedPayload(e) : e \in {x \in MachineEvents :
        /\ x.type \in {"AGENT_CONNECTED", "AGENT_MESSAGE", "AGENT_ENDED_CHAT",
                       "EMAIL_TRANSCRIPT_REQUESTED", "EMAIL_VALIDATED",
                       "SYSTEM_ERROR", "BOT_RESPONSE"}
        /\ x.metadata = NoMeta}}

\* replies of the workflow backend
Responses ==
    {Null,
     Response("Welcome", undefined, undefined, FALSE, NoMeta),
     Response("One moment ##ESCALATE##", undefined, undefined, FALSE, NoMeta),
     Response("Bye", undefined, undefined, FALSE, {"chatEnded"}),
     Response(undefined, "firstEntryJson", undefined, FALSE, NoMeta),
     Response(undefined, "Rate us", undefined, FALSE, {"startSurvey"})}

InjectedMessages ==
    {Injected("agent", "note", m) :
        m \in {NoMeta, {"liveAgentRequested"}, {"chatEnded"},
               {"liveAgentIssue"}}}
    \cup {Injected("bot", "note", NoMeta), Injected("system", "notice", NoMeta),
          Injected("agent", "help ##ESCALATE##", NoMeta)}

\* what an actor of the machine may resolve with by its declared type
\* (session.machine.ts, actors and the onDone params)
DeclaredOutputs ==
    {[content |-> "Hello", metadata |-> m] :
        m \in SUBSET (RoutingFlags \cup {"liveAgentIssue"})}

----------------------------------------------------------------------------
(* The program *)

RECURSIVE Emitted(_, _)
Emitted(w, S) ==
    IF S = {} THEN 0
    ELSE LET s == CHOOSE x \in S : TRUE
         IN  Len(w.stream[s]) + Emitted(w, S \ {s})

\* the model follows a run until MaxStream entries are on the streams
Open == Emitted(World, Sessions) < MaxStream

Init ==
    /\ sessions = {}
    /\ state = [s \in Sessions |-> "absent"]
    /\ ctx = [s \in Sessions |-> InitialContext(s)]
    /\ lastMessageCount = [s \in Sessions |-> 0]
    /\ stream = [s \in Sessions |-> <<>>]
    /\ actorsCreated = [s \in Sessions |-> 0]
    /\ actorCalls = <<>>
    /\ triggerCalls = <<>>

HandleTrigger(s, payload) ==
    /\ Open
    /\ Len(handleTrigger(World, s, payload).triggerCalls) <= MaxPending
    /\ Becomes(handleTrigger(World, s, payload))

\* callN8n returns to a waiting handleTrigger
HandleTriggerResumes(i, response) ==
    /\ Open
    /\ i \in 1..Len(triggerCalls)
    /\ LET call == triggerCalls[i]
       IN  Becomes(handleTriggerResponse(
                     [World EXCEPT !.triggerCalls = Remove(@, i)],
                     call.sessionId, call.type, call.payload, response))

InjectMessage(s, message) ==
    /\ Open
    /\ Becomes(injectMessage(World, s, message))

GetSessionStream(s) ==
    /\ Open
    /\ Becomes(getSessionStream(World, s))

\* the 15 s timer of a sendToDialogflow call fires before callN8n returns
DialogueTimeout(i) ==
    /\ Open
    /\ i \in 1..Len(actorCalls)
    /\ actorCalls[i].timer = "armed"
    /\ Becomes([World EXCEPT
          !.actorCalls[i].timer = "fired",
          !.stream[actorCalls[i].sessionId] =
              Append(@, BotMessage("timeout", timeoutNotice, "bot", NoMeta))])

\* the promise of an invoked actor settles with `output`; the done event
\* reaches the machine only while the child actor has not been stopped
\* variant: the completion of a call is delivered even after the invoking
\* state was left
settleDeliversStale(world, i, event) ==
    Apply(LAMBDA w :
        LET call == w.actorCalls[i]
            w1 == [w EXCEPT !.actorCalls = Remove(@, i)]
        IN  IF call.attached THEN send(w1, call.sessionId, event)
            ELSE send(w1, call.sessionId,
                      [Ev("BOT_RESPONSE") EXCEPT
                          !.content = event.output.content,
                          !.metadata = event.output.metadata]),
        world)

settle(world, i, event) ==
    Apply(LAMBDA w :
        LET call == w.actorCalls[i]
            w1 == [w EXCEPT !.actorCalls = Remove(@, i)]
        IN  IF call.attached THEN send(w1, call.sessionId, event) ELSE w1,
        world)

\* variant: a reply that comes after the timer has fired is thrown away
ActorCallReturnsUnlessTimedOut(i, response) ==
    /\ Open
    /\ i \in 1..Len(actorCalls)
    /\ IF actorCalls[i].timer = "fired"
       THEN Becomes([World EXCEPT !.actorCalls = Remove(@, i)])
       ELSE Becomes(settle(World, i,
                      DoneEvent(actorCalls[i].state,
                                actorOutput(actorCalls[i].src, response))))

\* callN8n returns to a provided actor (part_008): it never throws, so the
\* promise resolves
ActorCallReturns(i, response) ==
    /\ Open
    /\ i \in 1..Len(actorCalls)
    /\ Becomes(settle(World, i,
                 DoneEvent(actorCalls[i].state,
                           actorOutput(actorCalls[i].src, response))))

Next ==
    \/ \E s \in Sessions, payload \in TriggerPayloads : HandleTrigger(s, payload)
    \/ \E i \in 1..MaxStream, r \in Responses : HandleTriggerResumes(i, r)
    \/ \E s \in Sessions, m \in InjectedMessages : InjectMessage(s, m)
    \/ \E s \in Sessions : GetSessionStream(s)
    \/ \E i \in 1..MaxStream : DialogueTimeout(i)
    \/ \E i \in 1..MaxStream, r \in Responses : ActorCallReturns(i, r)

Spec == Init /\ [][Next]_vars

----------------------------------------------------------------------------
(* The machine on its own: the actor of a session is sent every ChatEvent  *)
(* and its invoked actors resolve with any output of their declared type   *)
(* or reject.                                                              *)

ActorSend(s, event) ==
    /\ Open
    /\ s \in sessions
    /\ Becomes(send(World, s, event))

ActorDone(i, output) ==
    /\ Open
    /\ i \in 1..Len(actorCalls)
    /\ Becomes(settle(World, i, DoneEvent(actorCalls[i].state, output)))

ActorError(i) ==
    /\ Open
    /\ i \in 1..Len(actorCalls)
    /\ Becomes(settle(World, i, ErrorEvent(actorCalls[i].state)))

MachineNext ==
    \/ \E s \in Sessions : GetSessionStream(s)
    \/ \E s \in Sessions, e \in MachineEvents : ActorSend(s, e)
    \/ \E i \in 1..MaxStream, o \in DeclaredOutputs : ActorDone(i, o)
    \/ \E i \in 1..MaxStream : ActorError(i)

MachineSpec == Init /\ [][MachineNext]_vars

----------------------------------------------------------------------------
(* Properties *)

IsPrefix(a, b) == Len(a) <= Len(b) /\ SubSeq(b, 1, Len(a)) = a

Last(seq) == seq[Len(seq)]

NonUser(msgs) == SelectSeq(msgs, LAMBDA msg : msg.role # "user")

\* what the subscription has put on the stream of s as messages
Published(s) ==
    SelectSeq(stream[s],
              LAMBDA e : e.type = "bot_message" /\ e.via = "subscribe")

\* the entries the step puts on the stream of s
NewEntries(s) == SubSeq(stream'[s], Len(stream[s]) + 1, Len(stream'[s]))

\* ---- C1 ----------------------------------------------------------------

\* the states in which a dialogue result or a BOT_RESPONSE is routed
RoutingStates ==
    {"idle", "botActive.processing", "botActive.inputReceived", "failure"}

\* the target the priority order email-transcript, live-agent, survey,
\* continue picks for a set of flags
Priority(metadata) ==
    IF "emailRequested" \in metadata THEN "email-transcript"
    ELSE IF "liveAgentRequested" \in metadata THEN "live-agent"
    ELSE IF "startSurvey" \in metadata THEN "survey"
    ELSE "continue"

Chosen(st) ==
    CASE st \in {"emailTranscript.emailRequested",
                 "emailTranscript.emailReceived", "sendingEmail"}
                                        -> "email-transcript"
      [] st = "handover"                -> "live-agent"
      [] st = "survey"                  -> "survey"
      [] st = "botActive.inputReceived" -> "continue"
      [] OTHER                          -> "none"

\* C1: whenever a dialogue result or a BOT_RESPONSE is routed (the step
\* leaves idle, botActive.processing, botActive.inputReceived or failure
\* and appends the bot message that carries the flags), the target is the
\* one the order email-transcript, live-agent, survey, continue picks for
\* those flags, the same at every routing point.
C1_FixedPriorityOrder ==
    [][\A s \in sessions :
          (/\ state[s] \in RoutingStates
           /\ Len(ctx'[s].messages) = Len(ctx[s].messages) + 1
           /\ Last(ctx'[s].messages).role = "bot")
          => Chosen(state'[s]) = Priority(Last(ctx'[s].messages).metadata)]_vars

\* a dialogue result flagged emailRequested has been routed to the live
\* agent handover
C1_EmailFlagRoutedToHandover ==
    \E s \in sessions :
        /\ state[s] = "handover"
        /\ ctx[s].messages # <<>>
        /\ Last(ctx[s].messages).role = "bot"
        /\ "emailRequested" \in Last(ctx[s].messages).metadata

\* ---- C2 ----------------------------------------------------------------

\* C2: lastMessageCount of a session never decreases, and once the
\* subscription has handled a snapshot it equals the length of the
\* context's message list.
C2_CountFollowsMessages ==
    /\ [](\A s \in Sessions : lastMessageCount[s] = Len(ctx[s].messages))
    /\ [][\A s \in Sessions : lastMessageCount'[s] >= lastMessageCount[s]]_vars

\* the counter has been raised twice, over user and bot messages
C2_CountRaisedTwice ==
    \E s \in sessions :
        /\ lastMessageCount[s] >= 2
        /\ \E i, j \in 1..Len(ctx[s].messages) :
              /\ ctx[s].messages[i].role = "user"
              /\ ctx[s].messages[j].role # "user"

\* ---- C3 ----------------------------------------------------------------

\* C3: the messages the subscription has published on a session's stream
\* are exactly the bot-role and agent-role messages of the context, each
\* once, in the order of the message list; no user-role message is among
\* them.
C3_PublishedAreNonUserMessages ==
    \A s \in Sessions :
        /\ Len(Published(s)) = Len(NonUser(ctx[s].messages))
        /\ \A i \in 1..Len(Published(s)) :
              /\ Published(s)[i].plainText = NonUser(ctx[s].messages)[i].content
              /\ Published(s)[i].participant = NonUser(ctx[s].messages)[i].role
              /\ Published(s)[i].participant # "user"

\* the subscription has handled a context that holds a user message and,
\* after it, a bot message: the stream carries the bot message alone
C3_MixedRolesPublished ==
    \E s \in sessions :
        /\ Len(ctx[s].messages) >= 2
        /\ ctx[s].messages[1].role = "user"
        /\ ctx[s].messages[2].role = "bot"
        /\ Len(Published(s)) = 1
        /\ Published(s)[1].plainText = ctx[s].messages[2].content

\* ---- C4 ----------------------------------------------------------------

\* C4: when handleTrigger puts the text of a named trigger's backend
\* response on the stream, that text is put on the stream as a message
\* once in that call: the BOT_RESPONSE sent afterwards does not make the
\* subscription publish it again.
C4_TriggerTextPublishedOnce ==
    [][\A s \in Sessions :
          \A i \in 1..Len(NewEntries(s)) :
              (/\ NewEntries(s)[i].via = "handleTrigger"
               /\ NewEntries(s)[i].plainText # "")
              => Cardinality({j \in 1..Len(NewEntries(s)) :
                    /\ NewEntries(s)[j].type = "bot_message"
                    /\ NewEntries(s)[j].plainText = NewEntries(s)[i].plainText})
                 = 1]_vars

\* the text of a trigger response is on the stream twice, once from
\* handleTrigger and once from the subscription
C4_TriggerTextTwice ==
    \E s \in sessions : \E i, j \in 1..Len(stream[s]) :
        /\ i < j
        /\ stream[s][i].via = "handleTrigger"
        /\ stream[s][j].via = "subscribe"
        /\ stream[s][j].type = "bot_message"
        /\ stream[s][j].plainText = stream[s][i].plainText

\* ---- C5 ----------------------------------------------------------------

\* the number of messages the subscription has published among the first
\* i entries of the stream of s
PublishedUpTo(s, i) ==
    Len(SelectSeq(SubSeq(stream[s], 1, i),
                  LAMBDA e : e.type = "bot_message" /\ e.via = "subscribe"))

\* the positions of the state updates whose context holds at least k
\* bot or agent messages
SnapshotsHolding(s, k) ==
    {j \in 1..Len(stream[s]) :
        /\ stream[s][j].type = "state_update"
        /\ Len(NonUser(stream[s][j].context.messages)) >= k}

\* C5 as stated: the state snapshot of a transition is put on the stream
\* first and the bot/agent messages the transition appended after it, so
\* every published message is preceded by a snapshot that holds it.
C5_SnapshotBeforeMessages ==
    \A s \in Sessions : \A i \in 1..Len(stream[s]) :
        (stream[s][i].type = "bot_message" /\ stream[s][i].via = "subscribe")
        => \E j \in SnapshotsHolding(s, PublishedUpTo(s, i)) : j < i

\* C5 amended: the bot/agent messages a transition appended are put on the
\* stream first and the state snapshot of that transition after them, so
\* every published message is followed by a snapshot that holds it and
\* preceded by none.
C5_MessagesBeforeSnapshot ==
    \A s \in Sessions : \A i \in 1..Len(stream[s]) :
        (stream[s][i].type = "bot_message" /\ stream[s][i].via = "subscribe")
        => /\ SnapshotsHolding(s, PublishedUpTo(s, i)) # {}
           /\ \A j \in SnapshotsHolding(s, PublishedUpTo(s, i)) : j > i

\* a transition that appended a message has been published: the message,
\* then the snapshot in the state the transition reached
C5_MessageThenSnapshot ==
    \E s \in sessions : \E i \in 1..(Len(stream[s]) - 1) :
        /\ stream[s][i].type = "bot_message"
        /\ stream[s][i].via = "subscribe"
        /\ stream[s][i + 1].type = "state_update"
        /\ stream[s][i + 1].state # "idle"
        /\ stream[s][i + 1].context.messages # <<>>

\* ---- C6 ----------------------------------------------------------------

\* C6: across every step the message list of a context before the step
\* is a prefix of the list after it.
C6_MessagesAppendOnly ==
    [][\A s \in Sessions : IsPrefix(ctx[s].messages, ctx'[s].messages)]_vars

\* a user message followed by the bot response is read back in that order
C6_UserThenBot ==
    \E s \in sessions :
        /\ Len(ctx[s].messages) >= 2
        /\ ctx[s].messages[1].role = "user"
        /\ ctx[s].messages[2].role = "bot"
        /\ ctx[s].messages[1].content # ctx[s].messages[2].content

\* ---- C7 ----------------------------------------------------------------

\* C7: for every session id at most one actor (and stream) is ever
\* created, and the ids of the registry are those with exactly one.
C7_OneActorPerSession ==
    \A s \in Sessions :
        /\ actorsCreated[s] <= 1
        /\ s \in sessions <=> actorsCreated[s] = 1

\* handleTrigger, injectMessage and the subscription have all acted on one
\* session id after its creation
C7_ManyCallsOneSession ==
    \E s \in sessions :
        /\ \E i \in 1..Len(stream[s]) : stream[s][i].via = "injectMessage"
        /\ \E i \in 1..Len(ctx[s].messages) : ctx[s].messages[i].role = "user"
        /\ Len(stream[s]) >= 3

\* ---- C8 ----------------------------------------------------------------

\* C8: a connectivity probe (a trigger with neither type nor message) or
\* a reconnect (the stream being asked for) on a session id that is absent
\* or whose session is closed creates no session and leaves the registry
\* as it was.
C8_QuiescentTriggerCreatesNothing ==
    [][\A s \in Sessions :
          (/\ s \notin sessions \/ state[s] = "closed"
           /\ GetSessionStream(s) \/ HandleTrigger(s, ProbePayload))
          => /\ sessions' = sessions
             /\ actorsCreated' = actorsCreated]_vars

\* ---- C9 ----------------------------------------------------------------

\* C9: a user message for a session id whose session is closed creates a
\* fresh actor with a new context and an empty message log, and the
\* message is applied to it: the session is then waiting for the dialogue
\* backend and its log holds that message alone.
C9_ClosedSessionRevived ==
    \A s \in sessions :
        state[s] = "closed"
        => LET w == handleTrigger(World, s, Payload(undefined, "hello"))
           IN  /\ w.actorsCreated[s] = actorsCreated[s] + 1
               /\ w.state[s] = "botActive.processing"
               /\ w.ctx[s].messages = <<Message("user", "hello", NoMeta)>>

\* a session that held a conversation is closed and still in the registry
C9_ClosedSessionKept ==
    \E s \in sessions : state[s] = "closed" /\ ctx[s].messages # <<>>

\* ---- C10 ---------------------------------------------------------------

\* C10: once the state of a session is closed, no step changes its state
\* or its context.
C10_ClosedIsTerminal ==
    [][\A s \in Sessions :
          state[s] = "closed" => /\ state'[s] = "closed"
                                 /\ ctx'[s] = ctx[s]]_vars

\* the dialogue call of a session was in flight when the session closed,
\* and its timer has fired since
C10_LateEventAfterClose ==
    \E s \in sessions : \E i, j \in 1..Len(stream[s]) :
        /\ state[s] = "closed"
        /\ i < j
        /\ stream[s][i].type = "state_update"
        /\ stream[s][i].state = "closed"
        /\ stream[s][j].via = "timeout"

\* ---- C11 ---------------------------------------------------------------

\* the handleTrigger calls for s that wait for the workflow backend
Waiting(s) == {i \in 1..Len(triggerCalls) : triggerCalls[i].sessionId = s}

\* C11: the machine events of a trigger are applied after those of every
\* trigger that arrived before it for the same session: a trigger that
\* sends its event at once does so only when no earlier trigger of the
\* session still waits for the workflow backend, and waiting triggers of a
\* session resume in the order of their arrival.
C11_EventsInArrivalOrder ==
    [][/\ \A s \in sessions : \A p \in TriggerPayloads :
            (/\ triggerType(p) \notin DOMAIN specialTriggerMap
             /\ state[s] # "closed"
             /\ HandleTrigger(s, p))
            => Waiting(s) = {}
       /\ \A i \in 1..Len(triggerCalls) : \A r \in Responses :
            HandleTriggerResumes(i, r)
            => \A j \in Waiting(triggerCalls[i].sessionId) : j >= i]_vars

\* ---- C12 ---------------------------------------------------------------

USER_MESSAGE(content) == [Ev("USER_MESSAGE") EXCEPT !.content = content]

UserMessages(context) ==
    SelectSeq(context.messages, LAMBDA msg : msg.role = "user")

\* C12: a user message sent to a session whose dialogue call is in flight
\* is not lost: once the call has completed, the message is in the
\* context, after the messages that were there, and the session is in
\* botActive.processing again, with a dialogue call for it.
C12_MidCallMessageKept ==
    \A i \in 1..Len(actorCalls) :
        (/\ actorCalls[i].attached
         /\ actorCalls[i].src = "sendToDialogflow")
        => LET s == actorCalls[i].sessionId
               w == settle(send(World, s, USER_MESSAGE("again")), i,
                           DoneEvent("botActive.processing",
                                     [content |-> "Hello", metadata |-> NoMeta]))
           IN  /\ Len(UserMessages(w.ctx[s])) = Len(UserMessages(ctx[s])) + 1
               /\ w.state[s] = "botActive.processing"

\* a dialogue call is in flight
C12_CallInFlight ==
    \E i \in 1..Len(actorCalls) :
        /\ actorCalls[i].attached
        /\ actorCalls[i].src = "sendToDialogflow"
        /\ state[actorCalls[i].sessionId] = "botActive.processing"

\* ---- C13 ---------------------------------------------------------------

\* what the service holds for one session
SessionView(s) == <<state[s], ctx[s], lastMessageCount[s], stream[s]>>

\* C13: a step changes the state, context, lastMessageCount and stream of
\* at most one session: whatever is done for one session id leaves every
\* other session as it was.
C13_SessionsIndependent ==
    [][\A a, b \in Sessions :
          (a # b /\ SessionView(a)' # SessionView(a))
          => SessionView(b)' = SessionView(b)]_vars

\* two sessions side by side, in different states, each with messages of
\* its own
C13_TwoSessionsApart ==
    /\ sessions = Sessions
    /\ \E a, b \in sessions :
          /\ state[a] # state[b]
          /\ ctx[a].messages # <<>>
          /\ ctx[b].messages # <<>>
          /\ ctx[a].messages # ctx[b].messages

\* ---- C14 ---------------------------------------------------------------

\* C14: an external call that has outlived its timeout has delivered a
\* completion to its session: no call whose timer has fired is still
\* awaited by a session in botActive.processing.
C14_TimedOutCallCompleted ==
    \A i \in 1..Len(actorCalls) :
        actorCalls[i].timer = "fired"
        => ~(/\ actorCalls[i].attached
             /\ state[actorCalls[i].sessionId] = "botActive.processing")

\* a session waits for a call to the workflow backend that has no timer
C14_CallWithoutTimer ==
    \E i \in 1..Len(actorCalls) :
        /\ actorCalls[i].attached
        /\ actorCalls[i].timer = "none"
        /\ state[actorCalls[i].sessionId] \in {"handover", "sendingEmail"}

\* ---- C15 ---------------------------------------------------------------

Untimed(calls) ==
    [j \in 1..Len(calls) |-> [calls[j] EXCEPT !.timer = "any"]]

\* the step is the timer of call i firing, and nothing else
TimerFires(i) ==
    /\ Untimed(actorCalls') = Untimed(actorCalls)
    /\ actorCalls[i].timer = "armed"
    /\ actorCalls'[i].timer = "fired"

Notices(entries) == SelectSeq(entries, LAMBDA e : e.via = "timeout")

BotMessages(entries) == SelectSeq(entries, LAMBDA e : e.type = "bot_message")

C16_FailedTurnGoesToFailure ==
    [][\A i \in 1..Len(actorCalls) :
          (/\ actorCalls[i].attached
           /\ actorCalls[i].src = "sendToDialogflow"
           /\ state[actorCalls[i].sessionId] = "botActive.processing"
           /\ ActorCallReturns(i, Null))
          => state'[actorCalls[i].sessionId] = "failure"]_vars

\* a failed dialogue turn has been taken for an answer without text
C16_FailedTurnAnswered ==
    \E s \in sessions :
        /\ state[s] = "botActive.inputReceived"
        /\ Len(ctx[s].messages) = 2
        /\ ctx[s].messages[1].role = "user"
        /\ ctx[s].messages[2].role = "bot"
        /\ Falsy(ctx[s].messages[2].content)

\* ---- C17 ---------------------------------------------------------------

\* C17: a USER_MESSAGE sent to a session in failure moves it to
\* botActive.processing and starts a dialogue call whose input is that
\* message and the session id.
C17_FailureResumesOnUserMessage ==
    [][\A s \in sessions :
          (state[s] = "failure" /\ ActorSend(s, USER_MESSAGE("hello")))
          => /\ state'[s] = "botActive.processing"
             /\ Len(actorCalls') = Len(actorCalls) + 1
             /\ Last(actorCalls').attached
             /\ Last(actorCalls').src = "sendToDialogflow"
             /\ Last(actorCalls').sessionId = s
             /\ Last(actorCalls').input.message = "hello"
             /\ Last(actorCalls').input.sessionId = s]_vars

\* a session has been in failure and a dialogue call is in flight for the
\* user message that came after
C17_ResumedFromFailure ==
    \E s \in sessions : \E i \in 1..(Len(stream[s]) - 1) :
        /\ stream[s][i].type = "state_update"
        /\ stream[s][i].state = "failure"
        /\ stream[s][i + 1].type = "state_update"
        /\ stream[s][i + 1].state = "botActive.processing"
        /\ state[s] = "botActive.processing"
        /\ \E j \in 1..Len(actorCalls) :
              /\ actorCalls[j].sessionId = s
              /\ actorCalls[j].attached

\* ---- C18 ---------------------------------------------------------------

\* C18: a trigger {sessionId s, message "hello"} without a type and without
\* a wrapped event, for a session id that is not registered, creates the
\* session, takes it from idle to botActive.processing and invokes the
\* dialogue actor with exactly the message "hello" and the session id s.
C18_PlainTriggerStartsDialogue ==
    [][\A s \in Sessions :
          (s \notin sessions /\ HandleTrigger(s, Payload(undefined, "hello")))
          => /\ s \in sessions'
             /\ state'[s] = "botActive.processing"
             /\ Len(stream'[s]) = 2
             /\ stream'[s][1].type = "state_update"
             /\ stream'[s][1].state = "idle"
             /\ stream'[s][2].type = "state_update"
             /\ stream'[s][2].state = "botActive.processing"
             /\ Len(actorCalls') = Len(actorCalls) + 1
             /\ Last(actorCalls').attached
             /\ Last(actorCalls').src = "sendToDialogflow"
             /\ Last(actorCalls').sessionId = s
             /\ Last(actorCalls').input =
                   [message |-> "hello", sessionId |-> s, email |-> undefined]]_vars

\* the only session of the registry was created by a plain message and its
\* dialogue call is the only call made so far
C18_FirstSessionInDialogue ==
    \E s \in Sessions :
        /\ sessions = {s}
        /\ state[s] = "botActive.processing"
        /\ Len(stream[s]) = 2
        /\ Len(ctx[s].messages) = 1
        /\ ctx[s].messages[1].role = "user"
        /\ ctx[s].messages[1].content = "hello"
        /\ Len(actorCalls) = 1
        /\ actorCalls[1].attached
        /\ actorCalls[1].input.message = "hello"

\* ---- C19 ---------------------------------------------------------------

\* C19: when the dialogue call of a session in botActive.processing
\* completes with liveAgentRequested, the session enters handover and the
\* connect actor is invoked with the session id; when the connect call
\* completes without liveAgentIssue, the session enters agentActive.
C19_LiveAgentRequestHandsOver ==
    [][\A i \in 1..Len(actorCalls) : \A o \in DeclaredOutputs :
          LET s == actorCalls[i].sessionId
          IN  /\ (/\ actorCalls[i].attached
                  /\ actorCalls[i].src = "sendToDialogflow"
                  /\ "liveAgentRequested" \in o.metadata
                  /\ ActorDone(i, o))
                 => /\ state'[s] = "handover"
                    /\ actorCalls' # << >>
                    /\ Last(actorCalls').attached
                    /\ Last(actorCalls').src = "connectToLiveAgent"
                    /\ Last(actorCalls').sessionId = s
                    /\ Last(actorCalls').input.sessionId = s
              /\ (/\ actorCalls[i].attached
                  /\ actorCalls[i].src = "connectToLiveAgent"
                  /\ "liveAgentIssue" \notin o.metadata
                  /\ ActorDone(i, o))
                 => /\ state'[s] = "agentActive.connected"
                    /\ \A k \in 1..Len(actorCalls') :
                          actorCalls'[k].sessionId = s => ~actorCalls'[k].attached]_vars

\* a dialogue call has completed asking for a live agent and has put its
\* session in handover, where the connect call is in flight
C19_HandoverAfterDialogue ==
    \E s \in sessions :
        /\ state[s] = "handover"
        /\ Last(stream[s]).type = "state_update"
        /\ Last(stream[s]).state = "handover"
        /\ \E i \in 1..Len(stream[s]) :
              /\ stream[s][i].type = "state_update"
              /\ stream[s][i].state = "botActive.processing"
        /\ Len(ctx[s].messages) = 2
        /\ ctx[s].messages[2].role = "bot"
        /\ "liveAgentRequested" \in ctx[s].messages[2].metadata
        /\ \A k \in 1..Len(actorCalls) :
              actorCalls[k].sessionId = s
              => /\ actorCalls[k].attached
                 /\ actorCalls[k].src = "connectToLiveAgent"
                 /\ actorCalls[k].input.sessionId = s
        /\ \E k \in 1..Len(actorCalls) : actorCalls[k].sessionId = s

\* ---- C20 ---------------------------------------------------------------

\* C20: when the backend answers an end-chat trigger ("__endchat__") with
\* meta.startSurvey and the session is in a state whose BOT_RESPONSE guards
\* route that answer to survey, no USER_ENDED_CHAT follows and the session
\* is left in survey, not in closed.
C20_EndChatWithSurveyStaysInSurvey ==
    [][\A i \in 1..Len(triggerCalls) : \A r \in Responses :
          LET s == triggerCalls[i].sessionId
              answer == [Ev("BOT_RESPONSE") EXCEPT
                            !.content = r.text,
                            !.metadata = r.meta \cup {"chatEnded"}]
          IN  (/\ triggerCalls[i].type = "__endchat__"
               /\ ~r.isNull
               /\ "startSurvey" \in r.meta
               /\ sessionMachine(state[s], ctx[s], answer).state = "survey"
               /\ HandleTriggerResumes(i, r))
              => state'[s] = "survey"]_vars

\* an end-chat trigger was answered with a survey request: the stream shows
\* the answer and the survey state, and the session is closed
C20_SurveyAnswerThenClosed ==
    \E s \in sessions : \E i, j \in 1..Len(stream[s]) :
        /\ i < j
        /\ stream[s][i].type = "bot_message"
        /\ stream[s][i].via = "handleTrigger"
        /\ {"startSurvey", "chatEnded"} \subseteq stream[s][i].meta
        /\ stream[s][j].type = "state_update"
        /\ stream[s][j].state = "survey"
        /\ Last(stream[s]).type = "state_update"
        /\ Last(stream[s]).state = "closed"
        /\ state[s] = "closed"

\* ---- C21 ---------------------------------------------------------------

EMAIL_PROVIDED(email) == [Ev("EMAIL_PROVIDED") EXCEPT !.email = email]

EMAIL_INVALID(message) == [Ev("EMAIL_INVALID") EXCEPT !.message = message]

EmailCollection ==
    {"emailTranscript.emailRequested", "emailTranscript.emailReceived"}

\* C21: EMAIL_INVALID received in emailTranscript.emailRequested or
\* emailTranscript.emailReceived leaves the session in emailRequested and
\* appends exactly one bot message whose content is the event's message;
\* EMAIL_PROVIDED followed by EMAIL_INVALID, from emailRequested, ends in
\* emailRequested with one bot message added.
C21_InvalidEmailAsksAgain ==
    [][\A s \in sessions :
          /\ (state[s] \in EmailCollection
              /\ ActorSend(s, EMAIL_INVALID("not an email")))
             => /\ state'[s] = "emailTranscript.emailRequested"
                /\ ctx'[s] = [ctx[s] EXCEPT !.messages =
                                Append(@, Message("bot", "not an email", NoMeta))]
          /\ state[s] = "emailTranscript.emailRequested"
             => LET w == send(send(World, s, EMAIL_PROVIDED("bad")), s,
                              EMAIL_INVALID("not an email"))
                IN  /\ w.state[s] = "emailTranscript.emailRequested"
                    /\ w.ctx[s].messages =
                          Append(ctx[s].messages,
                                 Message("bot", "not an email", NoMeta))]_vars

\* an address was provided and then found invalid: the session asks again
C21_ProvidedThenInvalid ==
    \E s \in sessions : \E i \in 1..Len(stream[s]) :
        /\ stream[s][i].type = "state_update"
        /\ stream[s][i].state = "emailTranscript.emailReceived"
        /\ state[s] = "emailTranscript.emailRequested"
        /\ ctx[s].email = "bad"
        /\ ctx[s].messages = <<Message("bot", "not an email", NoMeta)>>

\* ---- C22 ---------------------------------------------------------------

\* C22: in handover, a connect call that completes with liveAgentIssue
\* moves the session to botActive.inputReceived and one that completes
\* without it moves the session to agentActive; LIVE_AGENT_ISSUE received
\* in handover or in agentActive moves the session to
\* botActive.inputReceived.
C22_IssueRoutesBackToBot ==
    [][/\ \A i \in 1..Len(actorCalls) : \A o \in DeclaredOutputs :
             (/\ actorCalls[i].attached
              /\ actorCalls[i].state = "handover"
              /\ ActorDone(i, o))
             => state'[actorCalls[i].sessionId] =
                   IF "liveAgentIssue" \in o.metadata
                   THEN "botActive.inputReceived" ELSE "agentActive.connected"
       /\ \A s \in sessions :
             (/\ state[s] \in {"handover", "agentActive.connected"}
              /\ ActorSend(s, Ev("LIVE_AGENT_ISSUE")))
             => state'[s] = "botActive.inputReceived"]_vars

\* a session that was with a live agent is back with the bot
C22_BackFromAgent ==
    \E s \in sessions : \E i \in 1..(Len(stream[s]) - 1) :
        /\ stream[s][i].type = "state_update"
        /\ stream[s][i].state = "agentActive.connected"
        /\ i + 1 = Len(stream[s])
        /\ stream[s][i + 1].type = "state_update"
        /\ stream[s][i + 1].state = "botActive.inputReceived"
        /\ state[s] = "botActive.inputReceived"

\* ---- C23 ---------------------------------------------------------------

\* C23: a live-agent-connect call that fails moves the session from
\* handover to botActive.inputReceived, and a transcript call moves the
\* session from sendingEmail to botActive.inputReceived whether it succeeds
\* or fails; a user message sent afterwards starts a dialogue turn.
C23_FailedCallsReturnToBot ==
    [][\A i \in 1..Len(actorCalls) :
          LET s == actorCalls[i].sessionId
          IN  /\ (/\ actorCalls[i].attached
                  /\ actorCalls[i].state = "handover"
                  /\ ActorCallReturns(i, Null))
                 => /\ state'[s] = "botActive.inputReceived"
                    /\ send(World', s, USER_MESSAGE("hello")).state[s]
                          = "botActive.processing"
              /\ \A r \in Responses :
                   (/\ actorCalls[i].attached
                    /\ actorCalls[i].state = "sendingEmail"
                    /\ ActorCallReturns(i, r))
                   => /\ state'[s] = "botActive.inputReceived"
                      /\ send(World', s, USER_MESSAGE("hello")).state[s]
                            = "botActive.processing"]_vars

\* a session is with a live agent that never connected: the connect call
\* returned and no agent id was ever set
C23_AgentActiveWithoutAgent ==
    \E s \in sessions :
        /\ state[s] = "agentActive.connected"
        /\ ctx[s].agentId = undefined
        /\ Len(stream[s]) >= 2
        /\ stream[s][Len(stream[s]) - 1].type = "state_update"
        /\ stream[s][Len(stream[s]) - 1].state = "handover"
        /\ \A k \in 1..Len(actorCalls) : actorCalls[k].sessionId # s

\* ---- C24 ---------------------------------------------------------------

\* C24: when the live-agent-connect call fails, the transition out of
\* handover leaves the error of the failed call in context.error.
C24_ConnectErrorRecorded ==
    [][\A i \in 1..Len(actorCalls) :
          (/\ actorCalls[i].attached
           /\ actorCalls[i].state = "handover"
           /\ ActorError(i))
          => /\ state'[actorCalls[i].sessionId] = "botActive.inputReceived"
             /\ ctx'[actorCalls[i].sessionId].error # undefined]_vars

\* a connect call was rejected and its session is back with the bot
C24_ConnectRejected ==
    \E s \in sessions :
        /\ state[s] = "botActive.inputReceived"
        /\ Len(stream[s]) = 3
        /\ stream[s][2].type = "state_update"
        /\ stream[s][2].state = "handover"
        /\ ctx[s].messages = << >>
        /\ ctx[s].error = undefined
        /\ actorCalls = << >>

\* ---- C25 ---------------------------------------------------------------

\* C25: every entry to sendingEmail invokes the transcript actor with the
\* session id and the email of the context; when the context has no email,
\* the email passed is the content of the most recent user message, or the
\* empty string when the context has no user message.
C25_TranscriptInput ==
    [][\A s \in sessions :
          (state[s] # "sendingEmail" /\ state'[s] = "sendingEmail")
          => LET users == UserMessages(ctx'[s])
                 call == Last(actorCalls')
             IN  /\ actorCalls' # << >>
                 /\ call.attached
                 /\ call.src = "sendEmailTranscript"
                 /\ call.sessionId = s
                 /\ call.input.sessionId = s
                 /\ call.input.email =
                       IF ~Falsy(ctx'[s].email) THEN ctx'[s].email
                       ELSE IF users = << >> THEN ""
                       ELSE users[Len(users)].content]_vars

\* a transcript call is in flight for a session that collected no email:
\* the address passed is the user's last message
C25_TranscriptToLastUserMessage ==
    \E s \in sessions : \E i \in 1..Len(actorCalls) :
        /\ state[s] = "sendingEmail"
        /\ ctx[s].email = undefined
        /\ UserMessages(ctx[s]) # << >>
        /\ actorCalls[i].attached
        /\ actorCalls[i].sessionId = s
        /\ actorCalls[i].src = "sendEmailTranscript"
        /\ actorCalls[i].input.email = "hello"

\* ---- C26 ---------------------------------------------------------------

EMAIL_VALIDATED(email) == [Ev("EMAIL_VALIDATED") EXCEPT !.email = email]

\* C26: in emailTranscript.emailRequested, EMAIL_PROVIDED stores the
\* event's email and USER_MESSAGE stores the message content as
\* context.email, both moving to emailReceived; EMAIL_VALIDATED received in
\* emailRequested or emailReceived stores the validated email in
\* context.email and moves the session to sendingEmail.
C26_EmailCollected ==
    [][\A s \in sessions :
          /\ (/\ state[s] = "emailTranscript.emailRequested"
              /\ ActorSend(s, EMAIL_PROVIDED("bad")))
             => /\ state'[s] = "emailTranscript.emailReceived"
                /\ ctx'[s] = [ctx[s] EXCEPT !.email = "bad"]
          /\ (/\ state[s] = "emailTranscript.emailRequested"
              /\ ActorSend(s, USER_MESSAGE("hello")))
             => /\ state'[s] = "emailTranscript.emailReceived"
                /\ ctx'[s] = [ctx[s] EXCEPT !.email = "hello"]
          /\ (/\ state[s] \in EmailCollection
              /\ ActorSend(s, EMAIL_VALIDATED("a@b.c")))
             => /\ state'[s] = "sendingEmail"
                /\ ctx'[s] = [ctx[s] EXCEPT !.email = "a@b.c"]]_vars

\* the address of a session was taken from a user message
C26_AddressFromUserMessage ==
    \E s \in sessions :
        /\ state[s] = "emailTranscript.emailReceived"
        /\ ctx[s].email = "hello"
        /\ ctx[s].messages = << >>

\* ---- C27 ---------------------------------------------------------------

AGENT_MESSAGE(content) == [Ev("AGENT_MESSAGE") EXCEPT !.content = content]

\* C27: in agentActive, a USER_MESSAGE or an AGENT_MESSAGE appends exactly
\* one message of the matching role and changes neither the state nor any
\* other field of the context; AGENT_ENDED_CHAT moves the session to survey
\* and USER_ENDED_CHAT moves it to closed.
C27_AgentActiveAppendsOnly ==
    [][\A s \in sessions :
          /\ (/\ state[s] = "agentActive.connected"
              /\ ActorSend(s, USER_MESSAGE("hello")))
             => /\ state'[s] = "agentActive.connected"
                /\ ctx'[s] = [ctx[s] EXCEPT !.messages =
                                Append(@, Message("user", "hello", NoMeta))]
          /\ (/\ state[s] = "agentActive.connected"
              /\ ActorSend(s, AGENT_MESSAGE("agent here")))
             => /\ state'[s] = "agentActive.connected"
                /\ ctx'[s] = [ctx[s] EXCEPT !.messages =
                                Append(@, Message("agent", "agent here", NoMeta))]
          /\ (/\ state[s] = "agentActive.connected"
              /\ ActorSend(s, Ev("AGENT_ENDED_CHAT")))
             => state'[s] = "survey" /\ ctx'[s] = ctx[s]
          /\ (/\ state[s] = "agentActive.connected"
              /\ ActorSend(s, Ev("USER_ENDED_CHAT")))
             => state'[s] = "closed" /\ ctx'[s] = ctx[s]]_vars

\* a user and an agent have exchanged messages in agentActive
C27_UserAndAgentTalk ==
    \E s \in sessions :
        /\ state[s] = "agentActive.connected"
        /\ ctx[s].agentId = "agent-7"
        /\ ctx[s].messages = <<Message("user", "hello", NoMeta),
                               Message("agent", "agent here", NoMeta)>>

\* ---- C28 ---------------------------------------------------------------

\* C28: a user message handled for a session in agentActive is forwarded
\* to the live agent: the step starts a sendToLiveAgent call that carries
\* the content of the message.
C28_UserMessageRelayed ==
    [][\A s \in sessions :
          (/\ state[s] = "agentActive.connected"
           /\ HandleTrigger(s, Payload(undefined, "hello")))
          => \E i \in 1..Len(actorCalls') :
                /\ actorCalls'[i].sessionId = s
                /\ actorCalls'[i].src = "sendToLiveAgent"
                /\ actorCalls'[i].input.message = "hello"]_vars

\* a user message was taken in agentActive and no call is in flight for
\* the session
C28_UserMessageNotRelayed ==
    \E s \in sessions :
        /\ state[s] = "agentActive.connected"
        /\ ctx[s].messages # << >>
        /\ Last(ctx[s].messages) = Message("user", "hello", NoMeta)
        /\ Last(stream[s]).type = "state_update"
        /\ Last(stream[s]).context.messages = ctx[s].messages
        /\ triggerCalls = << >>
        /\ actorCalls = << >>

\* ---- C29 ---------------------------------------------------------------

SUBMIT_SURVEY(data) == [Ev("SUBMIT_SURVEY") EXCEPT !.data = data]

BOT_RESPONSE(content, metadata) ==
    [Ev("BOT_RESPONSE") EXCEPT !.content = content, !.metadata = metadata]

\* C29: in survey, SUBMIT_SURVEY stores the submitted payload in
\* context.surveyData and moves the session to closed; USER_ENDED_CHAT
\* moves it to closed and stores nothing; a BOT_RESPONSE appends one bot
\* message and leaves the session in survey.
C29_SurveyOutcomes ==
    [][\A s \in sessions :
          /\ (state[s] = "survey" /\ ActorSend(s, SUBMIT_SURVEY("5 stars")))
             => /\ state'[s] = "closed"
                /\ ctx'[s] = [ctx[s] EXCEPT !.surveyData = "5 stars"]
          /\ (state[s] = "survey" /\ ActorSend(s, Ev("USER_ENDED_CHAT")))
             => /\ state'[s] = "closed"
                /\ ctx'[s] = ctx[s]
          /\ \A m \in SUBSET RoutingFlags :
               (state[s] = "survey" /\ ActorSend(s, BOT_RESPONSE("ok", m)))
               => /\ state'[s] = "survey"
                  /\ ctx'[s] = [ctx[s] EXCEPT !.messages =
                                  Append(@, Message("bot", "ok", m))]]_vars

\* a session was closed by a submitted survey
C29_SurveySubmitted ==
    \E s \in sessions : \E i \in 1..(Len(stream[s]) - 1) :
        /\ stream[s][i].type = "state_update"
        /\ stream[s][i].state = "survey"
        /\ state[s] = "closed"
        /\ ctx[s].surveyData = "5 stars"

\* ---- C30 ---------------------------------------------------------------

\* C30: when handleTrigger finishes a trigger of type SURVEY_SUBMITTED for
\* a session in survey, the machine receives SUBMIT_SURVEY: the session is
\* closed and the survey payload is in context.surveyData.
C30_SurveyTriggerCloses ==
    [][\A i \in 1..Len(triggerCalls) : \A r \in Responses :
          LET s == triggerCalls[i].sessionId
          IN  (/\ triggerCalls[i].type = "SURVEY_SUBMITTED"
               /\ state[s] = "survey"
               /\ HandleTriggerResumes(i, r))
              => /\ state'[s] = "closed"
                 /\ ctx'[s].surveyData = triggerCalls[i].payload.data]_vars

\* ---- C31 ---------------------------------------------------------------

AGENT_CONNECTED(agentId) == [Ev("AGENT_CONNECTED") EXCEPT !.agentId = agentId]

BotStates == {"idle", "botActive.processing", "botActive.inputReceived"}

\* C31: from idle and from every sub-state of botActive, processing with a
\* dialogue call in flight included, AGENT_CONNECTED moves the session to
\* agentActive with context.agentId set to the event's agent id, and
\* AGENT_MESSAGE moves the session to agentActive with exactly one agent
\* message appended.
C31_AgentTakesOver ==
    [][\A s \in sessions :
          /\ (state[s] \in BotStates /\ ActorSend(s, AGENT_CONNECTED("agent-7")))
             => /\ state'[s] = "agentActive.connected"
                /\ ctx'[s] = [ctx[s] EXCEPT !.agentId = "agent-7"]
          /\ (state[s] \in BotStates /\ ActorSend(s, AGENT_MESSAGE("agent here")))
             => /\ state'[s] = "agentActive.connected"
                /\ ctx'[s] = [ctx[s] EXCEPT !.messages =
                                Append(@, Message("agent", "agent here", NoMeta))]]_vars

\* an agent's message arrived while a dialogue call was in flight: the
\* session is with the agent and the call is no longer attached
C31_AgentDuringDialogue ==
    \E s \in sessions : \E i \in 1..Len(actorCalls) :
        /\ state[s] = "agentActive.connected"
        /\ ctx[s].messages = <<Message("user", "hello", NoMeta),
                               Message("agent", "agent here", NoMeta)>>
        /\ actorCalls[i].sessionId = s
        /\ actorCalls[i].src = "sendToDialogflow"
        /\ ~actorCalls[i].attached

\* ---- C32 ---------------------------------------------------------------

EndChatIgnored == {"handover", "sendingEmail", "failure"}

\* C32: USER_ENDED_CHAT moves the session to closed from idle, from every
\* botActive sub-state, from agentActive, from survey and from every
\* emailTranscript sub-state; in handover, sendingEmail and failure, and
\* only there, it leaves the state and the context unchanged.
C32_EndChatHonored ==
    [][\A s \in sessions :
          (state[s] # "closed" /\ ActorSend(s, Ev("USER_ENDED_CHAT")))
          => /\ ctx'[s] = ctx[s]
             /\ state'[s] = IF state[s] \in EndChatIgnored
                            THEN state[s] ELSE "closed"]_vars

\* the user ended the chat after giving an address
C32_ClosedFromEmailReceived ==
    \E s \in sessions : \E i \in 1..(Len(stream[s]) - 1) :
        /\ i + 1 = Len(stream[s])
        /\ stream[s][i].type = "state_update"
        /\ stream[s][i].state = "emailTranscript.emailReceived"
        /\ stream[s][i + 1].type = "state_update"
        /\ stream[s][i + 1].state = "closed"
        /\ state[s] = "closed"

\* ---- C33 ---------------------------------------------------------------

\* C33: a trigger without a type whose message starts and ends with "__"
\* is handled as the named trigger of that name; any other message reaches
\* the machine as USER_MESSAGE with the message as content; a named trigger
\* that is not recognised changes neither the state nor the context of the
\* session.
C33_TriggerTyping ==
    [][\A s \in sessions :
          /\ HandleTrigger(s, Payload(undefined, "hello"))
             => LET w == send(World, s, USER_MESSAGE("hello"))
                IN  /\ state'[s] = w.state[s]
                    /\ ctx'[s] = w.ctx[s]
                    /\ triggerCalls' = triggerCalls
          /\ HandleTrigger(s, Payload(undefined, "__endchat__"))
             => /\ triggerCalls' =
                      Append(triggerCalls,
                             [sessionId |-> s, type |-> "__endchat__",
                              payload |-> Payload(undefined, "__endchat__")])
                /\ state'[s] = state[s]
                /\ ctx'[s] = ctx[s]
          /\ HandleTrigger(s, Payload(undefined, "__ping__"))
             => /\ state'[s] = state[s]
                /\ ctx'[s] = ctx[s]
                /\ triggerCalls' = triggerCalls
                /\ actorCalls' = actorCalls]_vars

\* a trigger named by its message alone awaits its backend call, for a
\* session that has a user message
C33_NamedByMessage ==
    \E s \in sessions : \E i \in 1..Len(triggerCalls) :
        /\ triggerCalls[i].sessionId = s
        /\ triggerCalls[i].type = "__endchat__"
        /\ triggerCalls[i].payload.type = undefined
        /\ ctx[s].messages = <<Message("user", "hello", NoMeta)>>

\* ---- C34 ---------------------------------------------------------------

\* content strings that carry the escalation marker, once and twice
MarkedContents == {"help ##ESCALATE##", "##ESCALATE## help ##ESCALATE##"}

Unmarked(content) == ~includes(content, escalationTag)

\* C34: a content string with the escalation marker, returned by the
\* dialogue backend or injected, is used without any occurrence of the
\* marker (in the actor's output, in the context and on the stream) and
\* counts as a live-agent request without an explicit flag.
C34_MarkerStripped ==
    \A s \in sessions : \A c \in MarkedContents :
        LET d == sendToDialogflow(Response(c, undefined, undefined, FALSE, NoMeta))
            w == injectMessage(World, s, Injected("system", c, NoMeta))
            a == injectMessage(World, s, Injected("agent", c, NoMeta))
        IN  /\ Unmarked(d.content)
            /\ "liveAgentRequested" \in d.metadata
            /\ \A k \in 1..Len(w.stream[s]) :
                  w.stream[s][k].type = "bot_message"
                  => Unmarked(w.stream[s][k].plainText)
            /\ \A k \in 1..Len(a.ctx[s].messages) :
                  Unmarked(a.ctx[s].messages[k].content)
            /\ state[s] \in BotStates => a.state[s] = "handover"

\* a dialogue reply that carried the marker once is in the context without
\* it and has taken the session to handover
C34_MarkerOnceStripped ==
    \E s \in sessions :
        /\ state[s] = "handover"
        /\ ctx[s].messages # << >>
        /\ Last(ctx[s].messages) =
              Message("bot", "One moment", {"liveAgentRequested"})

\* ---- C35 ---------------------------------------------------------------

\* C35: when the backend call of an email-transcript trigger
\* ("__email_transcript__") produces no bot message, handleTrigger sends
\* EMAIL_TRANSCRIPT_REQUESTED to the machine, which takes a session in idle
\* or botActive to emailTranscript.emailRequested; when a message was
\* produced, no such event is sent.
C35_TranscriptRequestedWhenSilent ==
    [][\A i \in 1..Len(triggerCalls) : \A r \in Responses :
          LET s == triggerCalls[i].sessionId
              silent == r.isNull \/ Or(Or(r.plainText, r.text), "") = "firstEntryJson"
          IN  (/\ triggerCalls[i].type = "__email_transcript__"
               /\ state[s] \in BotStates
               /\ HandleTriggerResumes(i, r))
              => IF silent
                 THEN state'[s] = "emailTranscript.emailRequested"
                 ELSE state'[s] # "emailTranscript.emailRequested"]_vars

\* an email-transcript trigger was answered with a message: the stream has
\* the message marked emailSent
C35_TranscriptAnswered ==
    \E s \in sessions : \E i \in 1..Len(stream[s]) :
        /\ stream[s][i].type = "bot_message"
        /\ stream[s][i].via = "handleTrigger"
        /\ "emailSent" \in stream[s][i].meta
        /\ state[s] # "emailTranscript.emailRequested"

\* ---- C36 ---------------------------------------------------------------

DialogueEntries == {"idle", "botActive.inputReceived", "failure"}

\* C36: whenever a user message takes a session from idle, inputReceived or
\* failure into botActive.processing, the message given to the dialogue
\* actor is the content of the most recent user message of the context.
C36_DialogueGetsLastUserMessage ==
    \A s \in sessions : \A c \in {"hello", "again"} :
        LET w == send(World, s, USER_MESSAGE(c))
            users == UserMessages(w.ctx[s])
        IN  (state[s] \in DialogueEntries /\ w.state[s] = "botActive.processing")
            => /\ w.actorCalls # << >>
               /\ Last(w.actorCalls).src = "sendToDialogflow"
               /\ Last(w.actorCalls).sessionId = s
               /\ users # << >>
               /\ Last(w.actorCalls).input.message = Last(users).content

\* a session is in failure with the user message of the failed turn
C36_FailedTurnInContext ==
    \E s \in sessions :
        /\ state[s] = "failure"
        /\ ctx[s].messages = <<Message("user", "hello", NoMeta)>>
        /\ \A i \in 1..Len(actorCalls) : actorCalls[i].sessionId # s

\* ---- C37 ---------------------------------------------------------------

\* C37: a message passed to injectMessage with participant bot or agent,
\* for a session that is not closed, is put on the session's stream exactly
\* once, whatever the state of the session and the flags of the message.
C37_InjectedDeliveredOnce ==
    \A s \in sessions : \A m \in InjectedMessages :
        (state[s] # "closed" /\ m.participant \in {"bot", "agent"})
        => Len(BotMessages(injectMessage(World, s, m).stream[s]))
              = Len(BotMessages(stream[s])) + 1

\* an injected agent message that asked for a live agent has put a new
\* session in handover and is neither in the context nor on the stream
C37_InjectedMessageLost ==
    \E s \in sessions :
        /\ state[s] = "handover"
        /\ ctx[s].messages = << >>
        /\ BotMessages(stream[s]) = << >>
        /\ Len(stream[s]) = 3
        /\ stream[s][2].state = "handover"
        /\ stream[s][3].state = "handover"
        /\ triggerCalls = << >>

\* ---- C38 ---------------------------------------------------------------

\* C38: the completion of a dialogue call appends exactly one bot message
\* to the context when the session is still in the processing state that
\* made the call, and changes neither the context nor the state when the
\* session has left that state before; either way the call is gone after
\* its completion, so it appends at most once.
C38_OneBotMessagePerCall ==
    \A i \in 1..Len(actorCalls) : \A r \in Responses :
        actorCalls[i].src = "sendToDialogflow"
        => LET s == actorCalls[i].sessionId
               w == settle(World, i,
                           DoneEvent(actorCalls[i].state,
                                     actorOutput(actorCalls[i].src, r)))
               rest == Remove(actorCalls, i)
           IN  /\ IsPrefix(rest, w.actorCalls)
               /\ \A k \in (Len(rest) + 1)..Len(w.actorCalls) :
                     w.actorCalls[k].src # "sendToDialogflow"
               /\ IF actorCalls[i].attached
                  THEN /\ Len(w.ctx[s].messages) = Len(ctx[s].messages) + 1
                       /\ Last(w.ctx[s].messages).role = "bot"
                       /\ IsPrefix(ctx[s].messages, w.ctx[s].messages)
                  ELSE /\ w.ctx[s] = ctx[s]
                       /\ w.state[s] = state[s]

\* a session has left processing for the live agent while its dialogue
\* call is still running
C38_CallOutlivedProcessing ==
    \E i \in 1..Len(actorCalls) :
        /\ actorCalls[i].src = "sendToDialogflow"
        /\ ~actorCalls[i].attached
        /\ state[actorCalls[i].sessionId] = "agentActive.connected"
        /\ ctx[actorCalls[i].sessionId].agentId = "agent-7"

\* ---- C39 ---------------------------------------------------------------

\* the events a user can cause
UserEvents == {USER_MESSAGE("hello"), Ev("USER_ENDED_CHAT")}

Accepts(s, event) ==
    LET t == sessionMachine(state[s], ctx[s], event)
    IN  t.state # state[s] \/ t.ctx # ctx[s]

CallPending(s) ==
    /\ state[s] \in InvokingStates
    /\ \E i \in 1..Len(actorCalls) :
          /\ actorCalls[i].sessionId = s
          /\ actorCalls[i].attached
          /\ actorCalls[i].state = state[s]

\* C39: in every state other than closed, either the call of the state
\* (processing, handover, sendingEmail) is pending or the session accepts
\* USER_MESSAGE or USER_ENDED_CHAT with a change of state or context.
C39_NeverStuck ==
    \A s \in sessions :
        state[s] # "closed"
        => \/ CallPending(s)
           \/ \E e \in UserEvents : Accepts(s, e)

\* a session in survey ignores a user message and still takes the user's
\* end of chat
C39_SurveyTakesEndOnly ==
    \E s \in sessions :
        /\ state[s] = "survey"
        /\ ~Accepts(s, USER_MESSAGE("hello"))
        /\ Accepts(s, Ev("USER_ENDED_CHAT"))
        /\ ~CallPending(s)

\* ---- C40 ---------------------------------------------------------------

\* C40: once a session is closed, no step puts a further bot message on
\* its stream: not the timer or the late result of a dialogue call, not a
\* later handleTrigger or injectMessage for the session.
C40_NothingPublishedAfterClose ==
    [][\A s \in sessions :
          state[s] = "closed"
          => BotMessages(stream'[s]) = BotMessages(stream[s])]_vars

\* the stream of a closed session carries a bot message after the update
\* that announced closed
C40_MessageAfterClose ==
    \E s \in sessions : \E i, j \in 1..Len(stream[s]) :
        /\ state[s] = "closed"
        /\ i < j
        /\ stream[s][i].type = "state_update"
        /\ stream[s][i].state = "closed"
        /\ stream[s][j].type = "bot_message"

====
